---------------------------- MODULE Spec2Model ----------------------------
(***************************************************************************)
(* Bounded buffer with n producers and m consumers solved with one mutex   *)
(* and two condition variables (threads/producer-consumer/                 *)
(* prod_cons_cond_t.c).                                                    *)
(*                                                                         *)
(* Every C statement that touches the shared structure is one action, so   *)
(* the states in which the lock is held and the fields are half updated    *)
(* are visible.  The pthread calls of the workers, pthread_create and     *)
(* pthread_join are taken to succeed (err = 0); the three init calls of    *)
(* init_shared may fail under SpecMain, which starts at main's first line. *)
(* Spec starts after a successful init_shared.  The                        *)
(* unlocked reads of produced_items / consumed_items in the two loop       *)
(* headers race with the locked increments; an aligned int is read either  *)
(* before or after the increment, and both outcomes are interleavings of   *)
(* the loop-header action with the increment action.                       *)
(* printBuffer only prints and is left out.                                *)
(***************************************************************************)
EXTENDS Integers, Sequences, FiniteSets, TLC

(* ------------------------------ sizes --------------------------------- *)

\* BUFFER_SIZE is 10 in the source; the model draws it from 1..MaxCapacity.
MaxCapacity == 2

\* #define NEUTRAL_VALUE 0
NEUTRAL_VALUE == 0

\* items_to_produce / items_to_consume are 100 in the source; the model
\* draws the common target from 0..MaxTarget.
MaxTarget == 3

\* argv[1] and argv[2] range over 1..MaxProducers and 1..MaxConsumers.
MaxProducers == 2

MaxConsumers == 2

\* rand() % 99 + 1 is drawn from 1..MaxData.
MaxData == 2

\* The command line has 1..MaxArgc words, the program name included.
MaxArgc == 4

\* An argument has 0..MaxArgLen characters.
MaxArgLen == 2

\* int is 32 bits and long 64 bits wide in the LP64 build the code is
\* written for; the model keeps int narrower than long, at 3 and 4 bits.
IntBits == 3

LongBits == 4

VARIABLES
    buffer,             \* shared->buffer, indexed 0..BUFFER_SIZE-1
    in,                 \* shared->in
    out,                \* shared->out
    produced_items,     \* shared->produced_items
    consumed_items,     \* shared->consumed_items
    current_items_num,  \* shared->current_items_num
    mutex,              \* owner of shared->mutex, or NoOwner
    capacity,           \* the value of BUFFER_SIZE
    target,             \* the value of items_to_produce and items_to_consume
    producers_num,      \* main: producers_num
    consumers_num,      \* main: consumers_num
    argc,               \* main: argc
    argv,               \* main: argv[1..argc-1], each a sequence of characters
    init_err,           \* which pthread_*_init call of init_shared failed
    main_pc,            \* position of main
    main_i,             \* loop index i of main's current loop
    ppc,                \* position of each producer thread
    pdata,              \* local variable data of each producer
    cpc,                \* position of each consumer thread
    p_log,              \* the lines printed at line 107, as <<index, value>>
    c_log               \* the lines printed at line 141, as <<index, value>>

shared_vars == <<buffer, in, out, produced_items, consumed_items, current_items_num>>

conf_vars == <<capacity, target, producers_num, consumers_num, argc, argv, init_err>>

main_vars == <<main_pc, main_i>>

prod_vars == <<ppc, pdata>>

log_vars == <<p_log, c_log>>

vars == <<shared_vars, mutex, conf_vars, main_vars, prod_vars, cpc, log_vars>>

BUFFER_SIZE == capacity

items_to_produce == target

items_to_consume == target

ProducerIds == 1..MaxProducers

ConsumerIds == 1..MaxConsumers

NoOwner == <<"none", 0>>

P(i) == <<"P", i>>

C(j) == <<"C", j>>

(* --------------------------- command line ----------------------------- *)

DigitChars == <<"0", "1", "2", "3", "4", "5", "6", "7", "8", "9">>

IsDigit(c) == \E d \in 1..10 : DigitChars[d] = c

DigitVal(c) == (CHOOSE d \in 1..10 : DigitChars[d] = c) - 1

\* isspace
IsSpace(c) == c = " "

\* The first position at or after k that holds no white space.
RECURSIVE SkipSpaces(_, _)
SkipSpaces(s, k) ==
    IF k <= Len(s) /\ IsSpace(s[k]) THEN SkipSpaces(s, k + 1) ELSE k

\* The first position at or after k that holds no digit.
RECURSIVE SkipDigits(_, _)
SkipDigits(s, k) ==
    IF k <= Len(s) /\ IsDigit(s[k]) THEN SkipDigits(s, k + 1) ELSE k

\* The number written by the digits s[from..to], acc being the value so far.
RECURSIVE DigitsValue(_, _, _, _)
DigitsValue(s, from, to, acc) ==
    IF from > to THEN acc
    ELSE DigitsValue(s, from + 1, to, 10 * acc + DigitVal(s[from]))

LONG_MAX == 2 ^ (LongBits - 1) - 1

LONG_MIN == -(2 ^ (LongBits - 1))

\* strtol(s, &str_end, 10): white space, an optional sign, then the longest
\* run of digits; the value is clamped to LONG_MIN..LONG_MAX.  Without any
\* digit the value is 0 and str_end is s itself.  end is the position
\* str_end points at; Len(s) + 1 is the terminating '\0'.
strtol(s) ==
    LET a == SkipSpaces(s, 1)
        signed == a <= Len(s) /\ s[a] \in {"+", "-"}
        neg == signed /\ s[a] = "-"
        b == IF signed THEN a + 1 ELSE a
        e == SkipDigits(s, b)
        v == DigitsValue(s, b, e - 1, 0)
    IN  IF e = b
          THEN [val |-> 0, end |-> 1]
          ELSE [val |-> IF neg THEN (IF -v < LONG_MIN THEN LONG_MIN ELSE -v)
                               ELSE (IF v > LONG_MAX THEN LONG_MAX ELSE v),
                end |-> e]

\* (int) of a long: the value modulo 2^IntBits, as gcc defines the
\* conversion of a value that int cannot hold.
ToInt(v) == ((v + 2 ^ (IntBits - 1)) % (2 ^ IntBits)) - 2 ^ (IntBits - 1)

\* The characters an argument is made of.
ArgChars == {"1", "7", "-", " ", "x"}

ArgStrings == UNION {[1..n -> ArgChars] : n \in 0..MaxArgLen}

\* The decimal numeral of a one-digit number.
Numeral(n) == <<DigitChars[n + 1]>>

(* ------------------------------ init ---------------------------------- *)

\* The state after init_shared returned in main (line 182).
init_shared ==
    /\ buffer = [k \in 0..(BUFFER_SIZE - 1) |-> NEUTRAL_VALUE]
    /\ in = 0
    /\ out = 0
    /\ produced_items = 0
    /\ consumed_items = 0
    /\ current_items_num = 0
    /\ mutex = NoOwner

Init ==
    /\ capacity \in 1..MaxCapacity
    /\ init_shared
    /\ target \in 0..MaxTarget
    /\ producers_num \in 1..MaxProducers
    /\ consumers_num \in 1..MaxConsumers
    /\ argc = 3
    /\ argv = <<Numeral(producers_num), Numeral(consumers_num)>>
    /\ init_err = "none"
    /\ main_pc = "create_producers"
    /\ main_i = 0
    /\ ppc = [i \in ProducerIds |-> "absent"]
    /\ pdata = [i \in ProducerIds |-> 0]
    /\ cpc = [j \in ConsumerIds |-> "absent"]
    /\ p_log = <<>>
    /\ c_log = <<>>

(* ------------------------------ main ---------------------------------- *)

\* for (i = 0; i < producers_num; i++) pthread_create(..., producer, ...)
MainCreateProducer ==
    /\ main_pc = "create_producers"
    /\ IF main_i < producers_num
         THEN /\ ppc' = [ppc EXCEPT ![main_i + 1] = "p_loop"]
              /\ main_i' = main_i + 1
              /\ main_pc' = main_pc
         ELSE /\ main_pc' = "create_consumers"
              /\ main_i' = 0
              /\ ppc' = ppc
    /\ UNCHANGED <<shared_vars, mutex, conf_vars, pdata, cpc, log_vars>>

\* for (i = 0; i < consumers_num; i++) pthread_create(..., consumer, ...)
MainCreateConsumer ==
    /\ main_pc = "create_consumers"
    /\ IF main_i < consumers_num
         THEN /\ cpc' = [cpc EXCEPT ![main_i + 1] = "c_loop"]
              /\ main_i' = main_i + 1
              /\ main_pc' = main_pc
         ELSE /\ main_pc' = "join_producers"
              /\ main_i' = 0
              /\ cpc' = cpc
    /\ UNCHANGED <<shared_vars, mutex, conf_vars, prod_vars, log_vars>>

\* for (i = 0; i < producers_num; i++) pthread_join(prod_data[i].tid, NULL)
MainJoinProducer ==
    /\ main_pc = "join_producers"
    /\ IF main_i < producers_num
         THEN /\ ppc[main_i + 1] = "p_done"
              /\ main_i' = main_i + 1
              /\ main_pc' = main_pc
         ELSE /\ main_pc' = "join_consumers"
              /\ main_i' = 0
    /\ UNCHANGED <<shared_vars, mutex, conf_vars, prod_vars, cpc, log_vars>>

\* for (i = 0; i < consumers_num; i++) pthread_join(cons_data[i].tid, NULL)
MainJoinConsumer ==
    /\ main_pc = "join_consumers"
    /\ IF main_i < consumers_num
         THEN /\ cpc[main_i + 1] = "c_done"
              /\ main_i' = main_i + 1
              /\ main_pc' = main_pc
         ELSE /\ main_pc' = "destroy"
              /\ main_i' = 0
    /\ UNCHANGED <<shared_vars, mutex, conf_vars, prod_vars, cpc, log_vars>>

\* destroy_shared(shared); exit(0);
MainDestroy ==
    /\ main_pc = "destroy"
    /\ main_pc' = "exit0"
    /\ UNCHANGED <<shared_vars, mutex, conf_vars, main_i, prod_vars, cpc, log_vars>>

\* line 161-175: the checks of argc and of the two counts.  Both counts are
\* converted before either is checked.
MainArgs ==
    /\ main_pc = "start"
    /\ IF argc # 3
         THEN /\ main_pc' = "exit1"
              /\ UNCHANGED <<producers_num, consumers_num>>
         ELSE LET r1 == strtol(argv[1])
                  r2 == strtol(argv[2])
              IN  /\ producers_num' = ToInt(r1.val)
                  /\ consumers_num' = ToInt(r2.val)
                  /\ main_pc' =
                        IF \/ (r1.end # Len(argv[1]) + 1 \/ ToInt(r1.val) <= 0)
                           \/ (r2.end # Len(argv[2]) + 1 \/ ToInt(r2.val) <= 0)
                          THEN "exit1"
                          ELSE "init_shared"
    /\ UNCHANGED <<shared_vars, mutex, capacity, target, argc, argv, init_err,
                   main_i, prod_vars, cpc, log_vars>>

\* line 177-182: malloc and init_shared.  The fields are set first; then
\* pthread_mutex_init and the two pthread_cond_init run, and the first that
\* fails makes init_shared print and return.  init_shared returns nothing,
\* and main goes on to create the threads in either case.
MainInitShared ==
    /\ main_pc = "init_shared"
    /\ buffer' = [k \in 0..(BUFFER_SIZE - 1) |-> NEUTRAL_VALUE]
    /\ in' = 0
    /\ out' = 0
    /\ produced_items' = 0
    /\ consumed_items' = 0
    /\ current_items_num' = 0
    /\ mutex' = NoOwner
    /\ init_err' \in {"none", "mutex", "empty", "full"}
    /\ main_pc' = "create_producers"
    /\ UNCHANGED <<capacity, target, producers_num, consumers_num, argc, argv,
                   main_i, prod_vars, cpc, log_vars>>

\* The primitives a failed init_shared left uninitialised.
UninitMutex == init_err = "mutex"

UninitEmpty == init_err \in {"mutex", "empty"}

UninitFull == init_err \in {"mutex", "empty", "full"}

\* A worker calls a pthread function on a primitive that was never
\* initialised.  The behaviour is undefined: the call may act as on an
\* initialised primitive (the worker's own action), or anything else may
\* happen, which the position "undefined" stands for.
UndefinedUse ==
    /\ main_pc \notin {"undefined", "exit0", "exit1"}
    /\ \/ \E i \in ProducerIds :
             \/ ppc[i] \in {"p_lock", "p_unlock"} /\ UninitMutex
             \/ ppc[i] = "p_while" /\ current_items_num = BUFFER_SIZE /\ UninitFull
             \/ ppc[i] = "p_signal" /\ UninitEmpty
       \/ \E j \in ConsumerIds :
             \/ cpc[j] \in {"c_lock", "c_unlock"} /\ UninitMutex
             \/ cpc[j] = "c_while" /\ current_items_num = 0
                   /\ consumed_items # items_to_consume /\ UninitEmpty
             \/ cpc[j] = "c_signal" /\ UninitFull
    /\ main_pc' = "undefined"
    /\ UNCHANGED <<shared_vars, mutex, conf_vars, main_i, prod_vars, cpc, log_vars>>

Main ==
    \/ MainCreateProducer
    \/ MainCreateConsumer
    \/ MainJoinProducer
    \/ MainJoinConsumer
    \/ MainDestroy

(* ----------------------------- producer -------------------------------- *)

\* Variant: "<=" in place of "<" at line 94.
P_loop_OffByOne(i) ==
    /\ ppc[i] = "p_loop"
    /\ IF produced_items <= items_to_produce
         THEN \E d \in 1..MaxData :
                /\ pdata' = [pdata EXCEPT ![i] = d]
                /\ ppc' = [ppc EXCEPT ![i] = "p_lock"]
         ELSE /\ ppc' = [ppc EXCEPT ![i] = "p_done"]
              /\ pdata' = [pdata EXCEPT ![i] = 0]
    /\ UNCHANGED <<shared_vars, mutex, conf_vars, main_vars, cpc, log_vars>>

\* Variant: data = rand() % 99, which can be NEUTRAL_VALUE.
P_loop_ZeroData(i) ==
    /\ ppc[i] = "p_loop"
    /\ IF produced_items < items_to_produce
         THEN \E d \in 0..MaxData :
                /\ pdata' = [pdata EXCEPT ![i] = d]
                /\ ppc' = [ppc EXCEPT ![i] = "p_lock"]
         ELSE /\ ppc' = [ppc EXCEPT ![i] = "p_done"]
              /\ pdata' = [pdata EXCEPT ![i] = 0]
    /\ UNCHANGED <<shared_vars, mutex, conf_vars, main_vars, cpc, log_vars>>

\* line 94-95: while (produced_items < items_to_produce) { data = rand() % 99 + 1;
\* The loop header reads produced_items without holding the mutex.  When the
\* loop ends the thread function returns and its local data is gone.
P_loop(i) ==
    /\ ppc[i] = "p_loop"
    /\ IF produced_items < items_to_produce
         THEN \E d \in 1..MaxData :
                /\ pdata' = [pdata EXCEPT ![i] = d]
                /\ ppc' = [ppc EXCEPT ![i] = "p_lock"]
         ELSE /\ ppc' = [ppc EXCEPT ![i] = "p_done"]
              /\ pdata' = [pdata EXCEPT ![i] = 0]
    /\ UNCHANGED <<shared_vars, mutex, conf_vars, main_vars, cpc, log_vars>>

\* Variant: the lock is taken without waiting for its owner to release it.
P_lock_Barging(i) ==
    /\ ppc[i] = "p_lock"
    /\ mutex' = P(i)
    /\ ppc' = [ppc EXCEPT ![i] = "p_while"]
    /\ UNCHANGED <<shared_vars, conf_vars, main_vars, pdata, cpc, log_vars>>

\* line 97: pthread_mutex_lock
P_lock(i) ==
    /\ ppc[i] = "p_lock"
    /\ mutex = NoOwner
    /\ mutex' = P(i)
    /\ ppc' = [ppc EXCEPT ![i] = "p_while"]
    /\ UNCHANGED <<shared_vars, conf_vars, main_vars, pdata, cpc, log_vars>>

\* line 100-101: while (current_items_num == BUFFER_SIZE) pthread_cond_wait(&full, &mutex)
\* The wait releases the mutex and parks the thread in one atomic step.
P_while(i) ==
    /\ ppc[i] = "p_while"
    /\ IF current_items_num = BUFFER_SIZE
         THEN /\ mutex' = NoOwner
              /\ ppc' = [ppc EXCEPT ![i] = "p_wait"]
         ELSE /\ mutex' = mutex
              /\ ppc' = [ppc EXCEPT ![i] = "p_if"]
    /\ UNCHANGED <<shared_vars, conf_vars, main_vars, pdata, cpc, log_vars>>

\* Variant: "if" in place of "while" at line 100, no second look at the buffer.
P_wake_NoRecheck(i) ==
    /\ ppc[i] = "p_woken"
    /\ mutex = NoOwner
    /\ mutex' = P(i)
    /\ ppc' = [ppc EXCEPT ![i] = "p_if"]
    /\ UNCHANGED <<shared_vars, conf_vars, main_vars, pdata, cpc, log_vars>>

\* line 101: a signalled producer takes the mutex again before
\* pthread_cond_wait returns, then evaluates the loop condition again.
P_wake(i) ==
    /\ ppc[i] = "p_woken"
    /\ mutex = NoOwner
    /\ mutex' = P(i)
    /\ ppc' = [ppc EXCEPT ![i] = "p_while"]
    /\ UNCHANGED <<shared_vars, conf_vars, main_vars, pdata, cpc, log_vars>>

\* Variant: line 105 left out, the body runs whenever the wait loop ends.
P_if_NoRecheck(i) ==
    /\ ppc[i] = "p_if"
    /\ ppc' = [ppc EXCEPT ![i] = "p_store"]
    /\ UNCHANGED <<shared_vars, mutex, conf_vars, main_vars, pdata, cpc, log_vars>>

\* line 105: if (produced_items < items_to_produce)
P_if(i) ==
    /\ ppc[i] = "p_if"
    /\ ppc' = [ppc EXCEPT ![i] =
                 IF produced_items < items_to_produce THEN "p_store" ELSE "p_signal"]
    /\ UNCHANGED <<shared_vars, mutex, conf_vars, main_vars, pdata, cpc, log_vars>>

\* line 106-107: buffer[in] = data; printf("P%d: buffer[%d] = %d\n", ...)
P_store(i) ==
    /\ ppc[i] = "p_store"
    /\ buffer' = [buffer EXCEPT ![in] = pdata[i]]
    /\ p_log' = Append(p_log, <<in, pdata[i]>>)
    /\ ppc' = [ppc EXCEPT ![i] = "p_in"]
    /\ UNCHANGED <<in, out, produced_items, consumed_items, current_items_num,
                   mutex, conf_vars, main_vars, pdata, cpc, c_log>>

\* line 109: in = (in + 1) % BUFFER_SIZE
P_in(i) ==
    /\ ppc[i] = "p_in"
    /\ in' = (in + 1) % BUFFER_SIZE
    /\ ppc' = [ppc EXCEPT ![i] = "p_inc"]
    /\ UNCHANGED <<buffer, out, produced_items, consumed_items, current_items_num,
                   mutex, conf_vars, main_vars, pdata, cpc, log_vars>>

\* line 110: produced_items++
P_inc(i) ==
    /\ ppc[i] = "p_inc"
    /\ produced_items' = produced_items + 1
    /\ ppc' = [ppc EXCEPT ![i] = "p_cnt"]
    /\ UNCHANGED <<buffer, in, out, consumed_items, current_items_num,
                   mutex, conf_vars, main_vars, pdata, cpc, log_vars>>

\* line 112: current_items_num++
P_cnt(i) ==
    /\ ppc[i] = "p_cnt"
    /\ current_items_num' = current_items_num + 1
    /\ ppc' = [ppc EXCEPT ![i] = "p_signal"]
    /\ UNCHANGED <<buffer, in, out, produced_items, consumed_items,
                   mutex, conf_vars, main_vars, pdata, cpc, log_vars>>

\* Variant: line 117 left out.
P_signal_None(i) ==
    /\ ppc[i] = "p_signal"
    /\ ppc' = [ppc EXCEPT ![i] = "p_unlock"]
    /\ UNCHANGED <<shared_vars, mutex, conf_vars, main_vars, pdata, cpc, log_vars>>

\* line 117: pthread_cond_signal(&empty) unblocks one consumer parked on
\* empty, if there is one; the runtime chooses which.
P_signal(i) ==
    /\ ppc[i] = "p_signal"
    /\ IF \E j \in ConsumerIds : cpc[j] = "c_wait"
         THEN \E j \in ConsumerIds :
                /\ cpc[j] = "c_wait"
                /\ cpc' = [cpc EXCEPT ![j] = "c_woken"]
         ELSE cpc' = cpc
    /\ ppc' = [ppc EXCEPT ![i] = "p_unlock"]
    /\ UNCHANGED <<shared_vars, mutex, conf_vars, main_vars, pdata, log_vars>>

\* line 120: pthread_mutex_unlock, then back to the loop header
P_unlock(i) ==
    /\ ppc[i] = "p_unlock"
    /\ mutex' = NoOwner
    /\ ppc' = [ppc EXCEPT ![i] = "p_loop"]
    /\ UNCHANGED <<shared_vars, conf_vars, main_vars, pdata, cpc, log_vars>>

producer(i) ==
    \/ P_loop(i)
    \/ P_lock(i)
    \/ P_while(i)
    \/ P_wake(i)
    \/ P_if(i)
    \/ P_store(i)
    \/ P_in(i)
    \/ P_inc(i)
    \/ P_cnt(i)
    \/ P_signal(i)
    \/ P_unlock(i)

(* ----------------------------- consumer -------------------------------- *)

\* Variant: the consumer also leaves when it finds the buffer empty.
C_loop_QuitWhenEmpty(j) ==
    /\ cpc[j] = "c_loop"
    /\ cpc' = [cpc EXCEPT ![j] =
                 IF consumed_items < items_to_consume /\ current_items_num > 0
                   THEN "c_lock" ELSE "c_done"]
    /\ UNCHANGED <<shared_vars, mutex, conf_vars, main_vars, prod_vars, log_vars>>

\* line 130: while (consumed_items < items_to_consume)
\* The loop header reads consumed_items without holding the mutex.
C_loop(j) ==
    /\ cpc[j] = "c_loop"
    /\ cpc' = [cpc EXCEPT ![j] =
                 IF consumed_items < items_to_consume THEN "c_lock" ELSE "c_done"]
    /\ UNCHANGED <<shared_vars, mutex, conf_vars, main_vars, prod_vars, log_vars>>

\* line 131: pthread_mutex_lock
C_lock(j) ==
    /\ cpc[j] = "c_lock"
    /\ mutex = NoOwner
    /\ mutex' = C(j)
    /\ cpc' = [cpc EXCEPT ![j] = "c_while"]
    /\ UNCHANGED <<shared_vars, conf_vars, main_vars, prod_vars, log_vars>>

\* line 134-135: while (current_items_num == 0 && consumed_items != items_to_consume)
\*                   pthread_cond_wait(&empty, &mutex)
C_while(j) ==
    /\ cpc[j] = "c_while"
    /\ IF current_items_num = 0 /\ consumed_items # items_to_consume
         THEN /\ mutex' = NoOwner
              /\ cpc' = [cpc EXCEPT ![j] = "c_wait"]
         ELSE /\ mutex' = mutex
              /\ cpc' = [cpc EXCEPT ![j] = "c_if"]
    /\ UNCHANGED <<shared_vars, conf_vars, main_vars, prod_vars, log_vars>>

\* Variant: "if" in place of "while" at line 134, no second look at the buffer.
C_wake_NoRecheck(j) ==
    /\ cpc[j] = "c_woken"
    /\ mutex = NoOwner
    /\ mutex' = C(j)
    /\ cpc' = [cpc EXCEPT ![j] = "c_if"]
    /\ UNCHANGED <<shared_vars, conf_vars, main_vars, prod_vars, log_vars>>

\* line 135: a signalled consumer takes the mutex again before
\* pthread_cond_wait returns, then evaluates the loop condition again.
C_wake(j) ==
    /\ cpc[j] = "c_woken"
    /\ mutex = NoOwner
    /\ mutex' = C(j)
    /\ cpc' = [cpc EXCEPT ![j] = "c_while"]
    /\ UNCHANGED <<shared_vars, conf_vars, main_vars, prod_vars, log_vars>>

\* Variant: line 139 left out, the body runs whenever the wait loop ends.
C_if_NoRecheck(j) ==
    /\ cpc[j] = "c_if"
    /\ cpc' = [cpc EXCEPT ![j] = "c_read"]
    /\ UNCHANGED <<shared_vars, mutex, conf_vars, main_vars, prod_vars, log_vars>>

\* line 139: if (consumed_items < items_to_consume)
C_if(j) ==
    /\ cpc[j] = "c_if"
    /\ cpc' = [cpc EXCEPT ![j] =
                 IF consumed_items < items_to_consume THEN "c_read" ELSE "c_signal"]
    /\ UNCHANGED <<shared_vars, mutex, conf_vars, main_vars, prod_vars, log_vars>>

\* line 140-141: data = buffer[out]; printf("C%d: buffer[%d] = %d\n", ...)
\* The local data is used by this printf only; the printed line carries it.
C_read(j) ==
    /\ cpc[j] = "c_read"
    /\ c_log' = Append(c_log, <<out, buffer[out]>>)
    /\ cpc' = [cpc EXCEPT ![j] = "c_clear"]
    /\ UNCHANGED <<shared_vars, mutex, conf_vars, main_vars, prod_vars, p_log>>

\* Variant: line 143 left out.
C_clear_Skip(j) ==
    /\ cpc[j] = "c_clear"
    /\ cpc' = [cpc EXCEPT ![j] = "c_out"]
    /\ UNCHANGED <<shared_vars, mutex, conf_vars, main_vars, prod_vars, log_vars>>

\* line 143: buffer[out] = NEUTRAL_VALUE
C_clear(j) ==
    /\ cpc[j] = "c_clear"
    /\ buffer' = [buffer EXCEPT ![out] = NEUTRAL_VALUE]
    /\ cpc' = [cpc EXCEPT ![j] = "c_out"]
    /\ UNCHANGED <<in, out, produced_items, consumed_items, current_items_num,
                   mutex, conf_vars, main_vars, prod_vars, log_vars>>

\* Variant: line 144 left out.
C_out_Stuck(j) ==
    /\ cpc[j] = "c_out"
    /\ cpc' = [cpc EXCEPT ![j] = "c_inc"]
    /\ UNCHANGED <<shared_vars, mutex, conf_vars, main_vars, prod_vars, log_vars>>

\* line 144: out = (out + 1) % BUFFER_SIZE
C_out(j) ==
    /\ cpc[j] = "c_out"
    /\ out' = (out + 1) % BUFFER_SIZE
    /\ cpc' = [cpc EXCEPT ![j] = "c_inc"]
    /\ UNCHANGED <<buffer, in, produced_items, consumed_items, current_items_num,
                   mutex, conf_vars, main_vars, prod_vars, log_vars>>

\* line 145: consumed_items++
C_inc(j) ==
    /\ cpc[j] = "c_inc"
    /\ consumed_items' = consumed_items + 1
    /\ cpc' = [cpc EXCEPT ![j] = "c_cnt"]
    /\ UNCHANGED <<buffer, in, out, produced_items, current_items_num,
                   mutex, conf_vars, main_vars, prod_vars, log_vars>>

\* Variant: line 147 left out.
C_cnt_Skip(j) ==
    /\ cpc[j] = "c_cnt"
    /\ cpc' = [cpc EXCEPT ![j] = "c_signal"]
    /\ UNCHANGED <<shared_vars, mutex, conf_vars, main_vars, prod_vars, log_vars>>

\* line 147: current_items_num--
C_cnt(j) ==
    /\ cpc[j] = "c_cnt"
    /\ current_items_num' = current_items_num - 1
    /\ cpc' = [cpc EXCEPT ![j] = "c_signal"]
    /\ UNCHANGED <<buffer, in, out, produced_items, consumed_items,
                   mutex, conf_vars, main_vars, prod_vars, log_vars>>

\* line 152: pthread_cond_signal(&full) unblocks one producer parked on
\* full, if there is one; the runtime chooses which.
C_signal(j) ==
    /\ cpc[j] = "c_signal"
    /\ IF \E i \in ProducerIds : ppc[i] = "p_wait"
         THEN \E i \in ProducerIds :
                /\ ppc[i] = "p_wait"
                /\ ppc' = [ppc EXCEPT ![i] = "p_woken"]
         ELSE ppc' = ppc
    /\ cpc' = [cpc EXCEPT ![j] = "c_unlock"]
    /\ UNCHANGED <<shared_vars, mutex, conf_vars, main_vars, pdata, log_vars>>

\* line 155: pthread_mutex_unlock, then back to the loop header
C_unlock(j) ==
    /\ cpc[j] = "c_unlock"
    /\ mutex' = NoOwner
    /\ cpc' = [cpc EXCEPT ![j] = "c_loop"]
    /\ UNCHANGED <<shared_vars, conf_vars, main_vars, prod_vars, log_vars>>

consumer(j) ==
    \/ C_loop(j)
    \/ C_lock(j)
    \/ C_while(j)
    \/ C_wake(j)
    \/ C_if(j)
    \/ C_read(j)
    \/ C_clear(j)
    \/ C_out(j)
    \/ C_inc(j)
    \/ C_cnt(j)
    \/ C_signal(j)
    \/ C_unlock(j)

(* --------------------------- specification ----------------------------- *)

Next ==
    \/ Main
    \/ \E i \in ProducerIds : producer(i)
    \/ \E j \in ConsumerIds : consumer(j)

Spec == Init /\ [][Next]_vars

\* Fair scheduling: main and every thread that can take a step eventually
\* takes one.
Fairness ==
    /\ WF_vars(Main)
    /\ \A i \in ProducerIds : WF_vars(producer(i))
    /\ \A j \in ConsumerIds : WF_vars(consumer(j))

FairSpec == Spec /\ Fairness

\* The program from its start: any command line, and init_shared may fail.
\* Before malloc there is no shared data; its fields hold placeholders that
\* nothing reads before MainInitShared assigns them.
InitMain ==
    /\ capacity \in 1..MaxCapacity
    /\ target \in 0..MaxTarget
    /\ argc \in 1..MaxArgc
    /\ argv \in [1..(argc - 1) -> ArgStrings]
    /\ init_err = "none"
    /\ producers_num = 0
    /\ consumers_num = 0
    /\ buffer = <<>>
    /\ in = 0
    /\ out = 0
    /\ produced_items = 0
    /\ consumed_items = 0
    /\ current_items_num = 0
    /\ mutex = NoOwner
    /\ main_pc = "start"
    /\ main_i = 0
    /\ ppc = [i \in ProducerIds |-> "absent"]
    /\ pdata = [i \in ProducerIds |-> 0]
    /\ cpc = [j \in ConsumerIds |-> "absent"]
    /\ p_log = <<>>
    /\ c_log = <<>>

NextMain ==
    \/ MainArgs
    \/ MainInitShared
    \/ UndefinedUse
    \/ Next

SpecMain == InitMain /\ [][NextMain]_vars

(* ------------------------------ claims --------------------------------- *)

\* The producers and consumers that main starts.
Producers == 1..producers_num

Consumers == 1..consumers_num

AllTerminated ==
    /\ \A i \in Producers : ppc[i] = "p_done"
    /\ \A j \in Consumers : cpc[j] = "c_done"

\* C2: under fair scheduling every producer and every consumer eventually
\* terminates and main's joins return, so main reaches exit(0).
C2_ProgramEnds == <>(AllTerminated /\ main_pc = "exit0")

\* C3: under fair scheduling every execution eventually reaches
\* produced_items = consumed_items = target.
C3_Progress == <>(produced_items = target /\ consumed_items = target)

\* C1: in every reachable state 0 <= current_items_num <= BUFFER_SIZE.
C1_Capacity == 0 <= current_items_num /\ current_items_num <= BUFFER_SIZE

\* A producer was signalled, and before it got the mutex back another
\* producer filled the buffer again.
C1_Witness ==
    /\ current_items_num = BUFFER_SIZE
    /\ mutex = NoOwner
    /\ \E i \in Producers : ppc[i] = "p_woken"

\* Both counters have reached the largest target with several producers and
\* consumers, while a consumer is still parked on empty.
C3_Witness ==
    /\ produced_items = target
    /\ consumed_items = target
    /\ target = MaxTarget
    /\ producers_num > 1
    /\ consumers_num > 1
    /\ \E j \in Consumers : cpc[j] = "c_wait"

\* C4: whenever all workers have terminated, produced_items =
\* consumed_items = target, current_items_num = 0 and every slot holds
\* NEUTRAL_VALUE.
C4_Conservation ==
    AllTerminated =>
        /\ produced_items = target
        /\ consumed_items = target
        /\ current_items_num = 0
        /\ \A k \in 0..(BUFFER_SIZE - 1) : buffer[k] = NEUTRAL_VALUE

C4_Witness ==
    /\ AllTerminated
    /\ main_pc = "destroy"
    /\ target = MaxTarget
    /\ producers_num > 1
    /\ consumers_num > 1

\* C5: whenever a producer is about to store into buffer[in] (line 106),
\* current_items_num < BUFFER_SIZE and buffer[in] holds NEUTRAL_VALUE.
C5_NoOverwrite ==
    \A i \in ProducerIds :
        ppc[i] = "p_store" =>
            /\ current_items_num < BUFFER_SIZE
            /\ buffer[in] = NEUTRAL_VALUE

\* A producer that was parked on a full buffer stores into a slot that was
\* used before.
C5_Witness ==
    /\ producers_num > 1
    /\ produced_items >= BUFFER_SIZE
    /\ \E i \in Producers : ppc[i] = "p_store"
    /\ \E k \in Producers : ppc[k] \in {"p_wait", "p_woken"}

\* C6: the reads are at every state a prefix of the writes (index and
\* value), the k-th write and the k-th read use index (k-1) mod BUFFER_SIZE,
\* and when all workers have terminated the reads are exactly the target
\* many writes.
C6_Fifo ==
    /\ Len(c_log) <= Len(p_log)
    /\ \A k \in 1..Len(c_log) : c_log[k] = p_log[k]
    /\ \A k \in 1..Len(p_log) : p_log[k][1] = (k - 1) % BUFFER_SIZE
    /\ \A k \in 1..Len(c_log) : c_log[k][1] = (k - 1) % BUFFER_SIZE
    /\ AllTerminated => (c_log = p_log /\ Len(p_log) = target)

C6_Witness ==
    /\ AllTerminated
    /\ producers_num > 1
    /\ consumers_num > 1
    /\ Len(c_log) = MaxTarget
    /\ Len(c_log) > BUFFER_SIZE
    /\ c_log[1][2] # c_log[2][2]

\* C7: the step that completes a consume (line 143) leaves NEUTRAL_VALUE in
\* the slot it read, and a slot holding NEUTRAL_VALUE changes only by a
\* producer's store (line 106) to that index.
C7_SentinelRestoration ==
    [][ /\ \A j \in ConsumerIds :
             (cpc[j] = "c_clear" /\ cpc'[j] = "c_out") => buffer'[out] = NEUTRAL_VALUE
        /\ \A k \in 0..(BUFFER_SIZE - 1) :
             (buffer[k] = NEUTRAL_VALUE /\ buffer'[k] # buffer[k]) =>
                 \E i \in ProducerIds :
                    /\ ppc[i] = "p_store"
                    /\ ppc'[i] = "p_in"
                    /\ in = k
      ]_vars

\* A slot that was read and cleared is still NEUTRAL_VALUE while later
\* slots are read, and the producer is about to store to it again.
C7_Witness ==
    /\ capacity = 2
    /\ consumed_items >= 1
    /\ buffer[0] = NEUTRAL_VALUE
    /\ buffer[1] # NEUTRAL_VALUE
    /\ in = 0
    /\ produced_items = BUFFER_SIZE
    /\ \E i \in Producers : ppc[i] = "p_store"

\* The slots between out and out + current_items_num - 1, modulo BUFFER_SIZE.
OccupiedRegion == {(out + d) % BUFFER_SIZE : d \in 0..(current_items_num - 1)}

\* C8: in every state with the mutex free, slot k holds a value other than
\* NEUTRAL_VALUE if and only if k lies in the occupied region.
C8_SlotInvariant ==
    mutex = NoOwner =>
        \A k \in 0..(BUFFER_SIZE - 1) :
            buffer[k] # NEUTRAL_VALUE <=> k \in OccupiedRegion

\* The occupied region wraps around the end of the array.
C8_Witness ==
    /\ mutex = NoOwner
    /\ out = BUFFER_SIZE - 1
    /\ current_items_num = BUFFER_SIZE
    /\ BUFFER_SIZE > 1

\* C9: produced_items and consumed_items never decrease and never exceed
\* the target.
C9_Counters ==
    /\ [](produced_items <= target /\ consumed_items <= target)
    /\ [][produced_items' >= produced_items /\ consumed_items' >= consumed_items]_vars

\* A producer and a consumer that both passed their loop header while the
\* counters were below the target are inside the lock / queued for it after
\* the target was reached.
C9_Witness ==
    /\ target > 0
    /\ produced_items = target
    /\ consumed_items = target
    /\ \E i \in Producers : ppc[i] = "p_if"
    /\ \E j \in Consumers : cpc[j] \in {"c_lock", "c_woken"}

\* Positions between acquiring and releasing the mutex.
ProducerLocked == {"p_while", "p_if", "p_store", "p_in", "p_inc", "p_cnt", "p_signal", "p_unlock"}

ConsumerLocked == {"c_while", "c_if", "c_read", "c_clear", "c_out", "c_inc", "c_cnt", "c_signal", "c_unlock"}

Holders ==
    {P(i) : i \in {k \in ProducerIds : ppc[k] \in ProducerLocked}}
        \cup {C(j) : j \in {k \in ConsumerIds : cpc[k] \in ConsumerLocked}}

\* C10: at most one worker is between lock and unlock and it is the owner
\* of the mutex, a parked worker does not own it, and every step that
\* changes the buffer, a cursor or a counter is a step of the owner, who
\* still owns the mutex afterwards.
C10_MutualExclusion ==
    /\ [](/\ Cardinality(Holders) <= 1
          /\ \A h \in Holders : mutex = h
          /\ (Holders = {} => mutex = NoOwner)
          /\ \A i \in ProducerIds : ppc[i] \in {"p_wait", "p_woken"} => mutex # P(i)
          /\ \A j \in ConsumerIds : cpc[j] \in {"c_wait", "c_woken"} => mutex # C(j))
    /\ [][shared_vars' # shared_vars =>
            /\ mutex # NoOwner
            /\ mutex' = mutex
            /\ \/ \E i \in ProducerIds :
                     mutex = P(i) /\ ppc'[i] # ppc[i] /\ cpc' = cpc
                        /\ \A k \in ProducerIds \ {i} : ppc'[k] = ppc[k]
               \/ \E j \in ConsumerIds :
                     mutex = C(j) /\ cpc'[j] # cpc[j] /\ ppc' = ppc
                        /\ \A k \in ConsumerIds \ {j} : cpc'[k] = cpc[k]
       ]_vars

\* A consumer changes the buffer while a producer is parked, another is
\* queued for the lock and the other consumer has been signalled.
C10_Witness ==
    /\ \E j \in Consumers : cpc[j] = "c_out"
    /\ \E j \in Consumers : cpc[j] = "c_woken"
    /\ \E i \in Producers : ppc[i] = "p_wait"
    /\ \E i \in Producers : ppc[i] = "p_lock"

\* Positions from which a worker's next step reads a field of the shared data.
ProducerReads == {"p_loop", "p_while", "p_if", "p_store", "p_in", "p_inc", "p_cnt"}

ConsumerReads == {"c_loop", "c_while", "c_if", "c_read", "c_clear", "c_out", "c_inc", "c_cnt"}

\* C11: every step of a producer or consumer that reads a field of the
\* shared data, the loop-header test included, is taken while that worker
\* owns the mutex.
C11_ReadsUnderLock ==
    [][ /\ \A i \in ProducerIds :
             (ppc[i] \in ProducerReads /\ ppc'[i] # ppc[i]) => mutex = P(i)
        /\ \A j \in ConsumerIds :
             (cpc[j] \in ConsumerReads /\ cpc'[j] # cpc[j]) => mutex = C(j)
      ]_vars

\* C12: in every reachable state a terminated producer implies
\* produced_items = target and a terminated consumer implies
\* consumed_items = target.
C12_NoEarlyTermination ==
    /\ \A i \in ProducerIds : ppc[i] = "p_done" => produced_items = target
    /\ \A j \in ConsumerIds : cpc[j] = "c_done" => consumed_items = target

\* One producer and one consumer have returned while the other producer was
\* parked on full and the other consumer has found the buffer empty.
C12_Witness ==
    /\ \E i, k \in Producers : ppc[i] = "p_done" /\ ppc[k] \in {"p_wait", "p_woken"}
    /\ \E j, k \in Consumers : cpc[j] = "c_done" /\ cpc[k] \in {"c_wait", "c_woken"}

\* C13: with target = 0 no worker ever takes the lock, waits or signals, and
\* the shared data stays as init_shared left it.
C13_TargetZero ==
    target = 0 =>
        /\ \A i \in ProducerIds : ppc[i] \in {"absent", "p_loop", "p_done"}
        /\ \A j \in ConsumerIds : cpc[j] \in {"absent", "c_loop", "c_done"}
        /\ init_shared
        /\ p_log = <<>>
        /\ c_log = <<>>

C13_Witness ==
    /\ target = 0
    /\ AllTerminated
    /\ producers_num > 1
    /\ consumers_num > 1
    /\ main_pc = "exit0"

\* Positions of a worker that is not inside the body guarded by the second
\* test of the target (lines 106-112 and 140-147).
ProducerOutsideBody == {"p_loop", "p_lock", "p_while", "p_wait", "p_woken", "p_if", "p_signal", "p_unlock", "p_done"}

ConsumerOutsideBody == {"c_loop", "c_lock", "c_while", "c_wait", "c_woken", "c_if", "c_signal", "c_unlock", "c_done"}

\* C16: once produced_items = target, a step of a producer that is not
\* already inside the body leaves buffer, in, current_items_num and
\* produced_items unchanged and does not enter the body; the same for a
\* consumer with consumed_items, out and the body of lines 140-147.
C16_PassThrough ==
    [][ /\ \A i \in ProducerIds :
             (produced_items = target /\ ppc[i] \in ProducerOutsideBody /\ ppc'[i] # ppc[i]) =>
                 /\ UNCHANGED <<buffer, in, current_items_num, produced_items>>
                 /\ ppc'[i] \in ProducerOutsideBody
        /\ \A j \in ConsumerIds :
             (consumed_items = target /\ cpc[j] \in ConsumerOutsideBody /\ cpc'[j] # cpc[j]) =>
                 /\ UNCHANGED <<buffer, out, current_items_num, consumed_items>>
                 /\ cpc'[j] \in ConsumerOutsideBody
      ]_vars

\* A producer woken after the target was reached is at the second test, and
\* so is a consumer.
C16_Witness ==
    /\ target > 0
    /\ produced_items = target
    /\ consumed_items = target
    /\ \E i \in Producers : ppc[i] = "p_signal"
    /\ \E j \in Consumers : cpc[j] = "c_woken"

\* C17: whenever a consumer is about to read buffer[out] (line 140),
\* current_items_num > 0 and the slot holds a produced value; no printed
\* read carries NEUTRAL_VALUE.
C17_ConsumeNonEmpty ==
    /\ \A j \in ConsumerIds :
          cpc[j] = "c_read" => (current_items_num > 0 /\ buffer[out] # NEUTRAL_VALUE)
    /\ \A k \in 1..Len(c_log) : c_log[k][2] # NEUTRAL_VALUE

\* A consumer reads the only item while the other consumer, signalled for
\* it, still waits for the mutex.
C17_Witness ==
    /\ current_items_num = 1
    /\ \E j, k \in Consumers : cpc[j] = "c_read" /\ cpc[k] = "c_woken"

\* C18: with the mutex free, if there are items and consumed_items < target
\* some consumer is neither terminated nor parked on empty, and if there is
\* room and produced_items < target some producer is neither terminated nor
\* parked on full.
C18_NoMissedWakeup ==
    mutex = NoOwner =>
        /\ (current_items_num > 0 /\ consumed_items < target) =>
               \E j \in Consumers : cpc[j] \notin {"c_done", "c_wait"}
        /\ (current_items_num < BUFFER_SIZE /\ produced_items < target) =>
               \E i \in Producers : ppc[i] \notin {"p_done", "p_wait"}

\* Items are in the buffer, one consumer is parked on empty and the only
\* consumer able to take them is the one that has just been signalled.
C18_Witness ==
    /\ mutex = NoOwner
    /\ current_items_num > 0
    /\ consumed_items < target
    /\ \E j, k \in Consumers : cpc[j] = "c_wait" /\ cpc[k] = "c_woken"

\* C19: with the mutex free, current_items_num = produced_items -
\* consumed_items, in = produced_items mod BUFFER_SIZE and
\* out = consumed_items mod BUFFER_SIZE.
C19_Bookkeeping ==
    mutex = NoOwner =>
        /\ current_items_num = produced_items - consumed_items
        /\ in = produced_items % BUFFER_SIZE
        /\ out = consumed_items % BUFFER_SIZE
        /\ consumed_items <= produced_items

\* Both cursors have wrapped and items are in the buffer.
C19_Witness ==
    /\ mutex = NoOwner
    /\ capacity = 2
    /\ produced_items = 3
    /\ consumed_items = 2
    /\ producers_num > 1
    /\ consumers_num > 1

\* Runs with exactly one producer and one consumer.
InitOneOne == Init /\ producers_num = 1 /\ consumers_num = 1

OneOneSpec == InitOneOne /\ [][Next]_vars /\ Fairness

\* C20: with one producer and one consumer every fair execution ends with
\* both workers terminated and main at exit(0).
C20_OneOneTerminates == <>(AllTerminated /\ main_pc = "exit0")

\* A run with one producer and one consumer, the smallest buffer and the
\* largest target has ended.
C20_Witness ==
    /\ main_pc = "exit0"
    /\ AllTerminated
    /\ capacity = 1
    /\ target = MaxTarget

NoWorkerStarted ==
    /\ \A i \in ProducerIds : ppc[i] = "absent"
    /\ \A j \in ConsumerIds : cpc[j] = "absent"

\* C14: if pthread_mutex_init or one of the pthread_cond_init fails, no
\* producer or consumer is started and main does not go on to join the
\* workers and exit with code 0.
C14_InitFailureAborts ==
    init_err # "none" =>
        /\ NoWorkerStarted
        /\ main_pc \notin {"join_producers", "join_consumers", "destroy", "exit0"}

\* s is white space, an optional sign and at least one digit, and the
\* integer it writes, of whatever size, is positive.
DenotesPositive(s) ==
    LET a == SkipSpaces(s, 1)
        signed == a <= Len(s) /\ s[a] \in {"+", "-"}
        b == IF signed THEN a + 1 ELSE a
    IN  /\ b <= Len(s)
        /\ SkipDigits(s, b) = Len(s) + 1
        /\ ~(signed /\ s[a] = "-")
        /\ DigitsValue(s, b, Len(s), 0) > 0

UsageError ==
    \/ argc # 3
    \/ ~DenotesPositive(argv[1])
    \/ ~DenotesPositive(argv[2])

\* C15: if argc is not 3, or one of the two counts is not the numeral of a
\* positive integer, main goes from its start to exit(1): the shared data
\* is never allocated or initialised and no worker is started.
C15_UsageErrorsFatal ==
    UsageError =>
        /\ main_pc \in {"start", "exit1"}
        /\ buffer = <<>>
        /\ NoWorkerStarted

=============================================================================
